---- MODULE Spec2Model ----
(***************************************************************************)
(* Model of backend.py: the per-hand gesture state (HandState), the        *)
(* open-palm classifier, the palm-center estimator and the session loop    *)
(* track_hands with its rate-limited publishing.                           *)
(*                                                                         *)
(* Units.  Timestamps are integers counting 1/120 s, so that               *)
(* SEND_INTERVAL = 1/60 s = 2 and PALM_HOLD_SECONDS = 3.0 s = 360.         *)
(* Coordinates are fixed-point, scaled by 1000 (0.5 is 500); weights are   *)
(* percentages (SMOOTH_ALPHA = 0.35 is 35).                                *)
(* Python's None is the empty sequence and a present value v is <<v>>.     *)
(***************************************************************************)
EXTENDS Integers, Sequences, FiniteSets, TLC

VARIABLES
    pc,           \* position of the session loop: "loop", "send", "sleep", "done"
    ticks,        \* number of loop iterations that reached line 132
    now,          \* monotonic clock value read at line 132 (session start value before)
    last_send,    \* local last_send of track_hands
    hand_states,  \* hand_states[0], hand_states[1]: the two HandState objects
    hands_data,   \* local hands_data built by the current iteration
    result,       \* detections of the current iteration: a list of 0..2 [shape, label]
    prev_states,  \* history: hand_states as the current iteration found them
    wire,         \* message passed to websocket.send by the current iteration, if any
    sent_at,      \* history: the value of now at the latest completed send, if any
    n_sent,       \* history: number of completed sends
    cap_released, \* cap.release() has run
    raised,       \* an exception has propagated out of track_hands
    \* one HandState object driven directly through its methods
    hs,           \* the fields of the object
    hs_before,    \* history: the fields of the object before the latest call
    hs_now,       \* timestamp passed to the latest update (start value before)
    hs_op,        \* latest method call: "init", "update" or "reset"
    hs_arg,       \* arguments [shape, open_palm] of the latest update, if it is the latest call
    hs_ret,       \* dict returned by the latest update, if it is the latest call
    hs_calls,     \* number of method calls made
    open_since,   \* history: timestamp of the first update of the current unbroken
                  \* run of open_palm = TRUE updates, if such a run is in progress
    \* a second HandState object, fed the keypoints and resets of the first
    twin,         \* the fields of the object
    twin_now,     \* timestamp passed to its latest update
    twin_ret,     \* dict returned by its latest update, if it is the latest call
    \* two connections served at once
    duo,          \* duo[c]: the locals of the track_hands call of connection c
    duo_clock,    \* the monotonic clock both calls read
    \* one call of is_open_palm
    lm_in,        \* the keypoints passed
    palm_out      \* the value returned, once the call has been made

sessionVars == <<pc, ticks, now, last_send, hand_states, hands_data, result,
                 prev_states, wire, sent_at, n_sent, cap_released, raised>>
handVars == <<hs, hs_before, hs_now, hs_op, hs_arg, hs_ret, hs_calls, open_since>>
twinVars == <<twin, twin_now, twin_ret>>
duoVars == <<duo, duo_clock>>
palmVars == <<lm_in, palm_out>>
vars == <<sessionVars, handVars, twinVars, duoVars, palmVars>>
\* what a step of track_hands, and what a call on the HandState, leaves alone
offSession == <<handVars, twinVars, duoVars, palmVars>>
offHand == <<sessionVars, twinVars, duoVars, palmVars>>

(***************************************************************************)
(* Program constants                                                       *)
(***************************************************************************)
SEND_INTERVAL == 2
SMOOTH_ALPHA == 35
PALM_HOLD_SECONDS == 360

(***************************************************************************)
(* Bounds of the model                                                     *)
(***************************************************************************)
MaxTicks == 3
MaxCalls == 5
MaxPaceTicks == 8
MaxDuoTicks == 3
MaxTwinCalls == 3

\* Clock value at session start (time.monotonic has an undefined origin).
StartClock == 0

\* Timestamps a HandState may be constructed at.
StartClocks == {0, 1}

\* Clock advance between two reads of time.monotonic (line 132).
Deltas == {1, SEND_INTERVAL, PALM_HOLD_SECONDS}

\* Timestamp advance between two calls of HandState.update.
HandDeltas == {0, 1, PALM_HOLD_SECONDS - 1, PALM_HOLD_SECONDS}

None == << >>
Some(v) == <<v>>
Val(o) == o[1]
\* the Python value of an attribute as it is read into a dict: None stays None
Get(o) == IF o = None THEN None ELSE Val(o)

(***************************************************************************)
(* Keypoints: 21 points [x, y, z] indexed 0..20                            *)
(***************************************************************************)
Pt(px, py, pz) == [x |-> px, y |-> py, z |-> pz]

\* An open hand whose index finger is at x = ox: every tip is above its
\* PIP joint and farther from the wrist.
OpenHand(ox) ==
    [i \in 0..20 |->
        IF i = 0 THEN Pt(ox, 900, 0)
        ELSE IF i \in 1..4 THEN Pt(ox - 25 * i, 900 - 50 * i, 5 * i)
        ELSE LET f == (i - 5) \div 4
                 j == (i - 5) % 4
             IN  Pt(ox + 40 * f, 700 - 100 * j, 10 * (j + 1))]

\* A fist: every tip is curled below its PIP joint and nearer to the wrist.
Fist(ox) ==
    [i \in 0..20 |->
        IF i = 0 THEN Pt(ox, 900, 0)
        ELSE IF i \in 1..4 THEN Pt(ox - 15 * i, 900 - 35 * i, 5 * i)
        ELSE LET f == (i - 5) \div 4
                 j == (i - 5) % 4
             IN  IF j = 3 THEN Pt(ox + 40 * f, 750, 40)
                 ELSE Pt(ox + 40 * f, 700 - 100 * j, 10 * (j + 1))]

\* The keypoint sets the detector may deliver, by name; a detection carries
\* the name and Landmarks gives its 21 points.
Shapes == {"open", "fist"}
LandmarkTable == [shape \in Shapes |-> IF shape = "open" THEN OpenHand(500) ELSE Fist(600)]
Landmarks(shape) == LandmarkTable[shape]
Labels == {"Left", "Right"}

\* result.multi_hand_landmarks zipped with result.multi_handedness: 0..2 hands
Observation == [shape : Shapes, label : Labels]
\* (two hands of one frame carry different labels)
Frames == {<< >>} \cup {<<a>> : a \in Observation}
                  \cup {<<pr[1], pr[2]>> :
                          pr \in {q \in Observation \X Observation :
                                     q[1].label # q[2].label}}

(***************************************************************************)
(* Pure functions                                                          *)
(***************************************************************************)
Sq(a) == a * a

dist2(a, b) == Sq(a.x - b.x) + Sq(a.y - b.y) + Sq(a.z - b.z)

\* largest r with r * r <= n, by bisection on lo..hi
RECURSIVE ISqrt(_, _, _)
ISqrt(n, lo, hi) ==
    IF lo >= hi THEN lo
    ELSE LET mid == (lo + hi + 1) \div 2
         IN  IF mid * mid <= n THEN ISqrt(n, mid, hi) ELSE ISqrt(n, lo, mid - 1)

\* math.hypot(dx, dy) in fixed point
hypot(dx, dy) == ISqrt(Sq(dx) + Sq(dy), 0, 2000)

FingerPairs == <<<<8, 6>>, <<12, 10>>, <<16, 14>>, <<20, 18>>>>

\* the distance test without its 1.08 margin
ExtendedNoMargin(lm, tip_idx, pip_idx) ==
    LET wrist == lm[0]
        tip == lm[tip_idx]
        pip == lm[pip_idx]
    IN  dist2(tip, wrist) > dist2(pip, wrist) \/ tip.y < pip.y

Extended(lm, tip_idx, pip_idx) ==
    LET wrist == lm[0]
        tip == lm[tip_idx]
        pip == lm[pip_idx]
        tip_dist2 == dist2(tip, wrist)
        pip_dist2 == dist2(pip, wrist)
        extended_by_dist == 100 * tip_dist2 > 108 * pip_dist2
        extended_by_y == tip.y < pip.y
    IN  extended_by_dist \/ extended_by_y

is_open_palm(lm) ==
    \A k \in 1..Len(FingerPairs) : Extended(lm, FingerPairs[k][1], FingerPairs[k][2])

PalmPts == <<0, 5, 9, 13, 17>>

RECURSIVE SumAxis(_, _, _)
SumAxis(lm, axis, n) ==
    IF n = 0 THEN 0
    ELSE LET p == lm[PalmPts[n]]
             v == IF axis = "x" THEN p.x ELSE IF axis = "y" THEN p.y ELSE p.z
         IN  v + SumAxis(lm, axis, n - 1)

palm_center(lm) ==
    [x |-> SumAxis(lm, "x", Len(PalmPts)) \div Len(PalmPts),
     y |-> SumAxis(lm, "y", Len(PalmPts)) \div Len(PalmPts),
     z |-> SumAxis(lm, "z", Len(PalmPts)) \div Len(PalmPts)]

(***************************************************************************)
(* HandState                                                               *)
(***************************************************************************)
reset ==
    [sx |-> None, sy |-> None, sz |-> None, spinch |-> None,
     spx |-> None, spy |-> None, spz |-> None,
     palm_start_time |-> None, is_grabbing |-> FALSE]

\* the seven raw channel values of one keypoint set (lines 66-69)
Raw(lm) ==
    LET tip == lm[8]
        thumb == lm[4]
        p == palm_center(lm)
    IN  [x |-> tip.x, y |-> tip.y, z |-> tip.z,
         pinch |-> hypot(thumb.x - tip.x, thumb.y - tip.y),
         palm_x |-> p.x, palm_y |-> p.y, palm_z |-> p.z]

\* the weights of the new sample and of the previous value exchanged
EmaSwapped(raw, prev) == ((100 - SMOOTH_ALPHA) * raw + SMOOTH_ALPHA * prev) \div 100

\* SMOOTH_ALPHA * raw + (1 - SMOOTH_ALPHA) * prev
Ema(raw, prev) == (SMOOTH_ALPHA * raw + (100 - SMOOTH_ALPHA) * prev) \div 100

\* smoothing that starts every channel from 0.0 instead of the first sample
SmoothFromZero(s, r) ==
    LET prev(o) == IF o = None THEN 0 ELSE Val(o)
    IN  [s EXCEPT !.sx = Some(Ema(r.x, prev(s.sx))),
                  !.sy = Some(Ema(r.y, prev(s.sy))),
                  !.sz = Some(Ema(r.z, prev(s.sz))),
                  !.spinch = Some(Ema(r.pinch, prev(s.spinch))),
                  !.spx = Some(Ema(r.palm_x, prev(s.spx))),
                  !.spy = Some(Ema(r.palm_y, prev(s.spy))),
                  !.spz = Some(Ema(r.palm_z, prev(s.spz)))]

\* smoothing whose first sample initializes the pointer channels only
SmoothPointerFirst(s, r) ==
    IF s.sx = None
    THEN [s EXCEPT !.sx = Some(r.x), !.sy = Some(r.y), !.sz = Some(r.z),
                   !.spinch = Some(r.pinch)]
    ELSE [s EXCEPT !.sx = Some(Ema(r.x, Val(s.sx))),
                   !.sy = Some(Ema(r.y, Val(s.sy))),
                   !.sz = Some(Ema(r.z, Val(s.sz))),
                   !.spinch = Some(Ema(r.pinch, Val(s.spinch))),
                   !.spx = Some(Ema(r.palm_x, Val(s.spx))),
                   !.spy = Some(Ema(r.palm_y, Val(s.spy))),
                   !.spz = Some(Ema(r.palm_z, Val(s.spz)))]

\* lines 71-82
Smooth(s, r) ==
    IF s.sx = None
    THEN [s EXCEPT !.sx = Some(r.x), !.sy = Some(r.y), !.sz = Some(r.z),
                   !.spinch = Some(r.pinch),
                   !.spx = Some(r.palm_x), !.spy = Some(r.palm_y),
                   !.spz = Some(r.palm_z)]
    ELSE [s EXCEPT !.sx = Some(Ema(r.x, Val(s.sx))),
                   !.sy = Some(Ema(r.y, Val(s.sy))),
                   !.sz = Some(Ema(r.z, Val(s.sz))),
                   !.spinch = Some(Ema(r.pinch, Val(s.spinch))),
                   !.spx = Some(Ema(r.palm_x, Val(s.spx))),
                   !.spy = Some(Ema(r.palm_y, Val(s.spy))),
                   !.spz = Some(Ema(r.palm_z, Val(s.spz)))]

\* hold timer that arms only after more than PALM_HOLD_SECONDS
HoldTimerStrict(s, open_palm, t) ==
    IF open_palm
    THEN LET start == IF s.palm_start_time = None THEN Some(t) ELSE s.palm_start_time
             hold_duration == t - Val(start)
         IN  [s EXCEPT !.palm_start_time = start,
                       !.is_grabbing = IF hold_duration > PALM_HOLD_SECONDS
                                       THEN TRUE ELSE s.is_grabbing]
    ELSE [s EXCEPT !.palm_start_time = None, !.is_grabbing = FALSE]

\* hold timer that keeps the hold start over a reading with open_palm false
HoldTimerKeepsStart(s, open_palm, t) ==
    IF open_palm
    THEN LET start == IF s.palm_start_time = None THEN Some(t) ELSE s.palm_start_time
             hold_duration == t - Val(start)
         IN  [s EXCEPT !.palm_start_time = start,
                       !.is_grabbing = IF hold_duration >= PALM_HOLD_SECONDS
                                       THEN TRUE ELSE s.is_grabbing]
    ELSE [s EXCEPT !.is_grabbing = FALSE]

\* hold timer that fires the grab once and restarts the hold
HoldTimerPulse(s, open_palm, t) ==
    IF open_palm
    THEN LET start == IF s.palm_start_time = None THEN Some(t) ELSE s.palm_start_time
             hold_duration == t - Val(start)
         IN  IF hold_duration >= PALM_HOLD_SECONDS
             THEN [s EXCEPT !.palm_start_time = Some(t), !.is_grabbing = ~s.is_grabbing]
             ELSE [s EXCEPT !.palm_start_time = start]
    ELSE [s EXCEPT !.palm_start_time = None, !.is_grabbing = FALSE]

\* lines 84-93
HoldTimer(s, open_palm, t) ==
    IF open_palm
    THEN LET start == IF s.palm_start_time = None THEN Some(t) ELSE s.palm_start_time
             hold_duration == t - Val(start)
         IN  [s EXCEPT !.palm_start_time = start,
                       !.is_grabbing = IF hold_duration >= PALM_HOLD_SECONDS
                                       THEN TRUE ELSE s.is_grabbing]
    ELSE [s EXCEPT !.palm_start_time = None, !.is_grabbing = FALSE]

\* Python truthiness of an optional number: None and 0.0 are both false
Truthy(o) == o # None /\ Val(o) # 0

\* line 95
HoldDuration(s, t) ==
    IF Truthy(s.palm_start_time) THEN t - Val(s.palm_start_time) ELSE 0

Min(a, b) == IF a <= b THEN a ELSE b

\* lines 97-111
Payload(s, open_palm, t) ==
    [x |-> Get(s.sx), y |-> Get(s.sy), z |-> Get(s.sz), pinch |-> Get(s.spinch),
     palm_x |-> Get(s.spx), palm_y |-> Get(s.spy), palm_z |-> Get(s.spz),
     is_open_palm |-> open_palm,
     palm_hold_duration |-> Min(HoldDuration(s, t), PALM_HOLD_SECONDS),
     is_grabbing |-> s.is_grabbing]

\* update that stops smoothing while the grab is armed
updateFrozenWhileGrabbing(s, lm, open_palm, t) ==
    LET s1 == IF s.is_grabbing THEN s ELSE Smooth(s, Raw(lm))
        s2 == HoldTimer(s1, open_palm, t)
    IN  [state |-> s2, data |-> Payload(s2, open_palm, t)]

\* update that builds the returned dict before the hold timer has run
updateReportsBefore(s, lm, open_palm, t) ==
    LET s1 == Smooth(s, Raw(lm))
        s2 == HoldTimer(s1, open_palm, t)
    IN  [state |-> s2, data |-> Payload(s1, open_palm, t)]

\* HandState.update: the new state of the object and the returned dict
update(s, lm, open_palm, t) ==
    LET s2 == HoldTimer(Smooth(s, Raw(lm)), open_palm, t)
    IN  [state |-> s2, data |-> Payload(s2, open_palm, t)]

(***************************************************************************)
(* track_hands                                                             *)
(***************************************************************************)
NoMsg == None
Msg(n, t, prev, data) == Some([tick |-> n, at |-> t, prev |-> prev, hands |-> data])

\* lines 114-120, with the clock at t
SessionInitAt(t) ==
    /\ pc = "loop"
    /\ ticks = 0
    /\ now = t
    /\ last_send = 0
    /\ hand_states = [i \in 0..1 |-> reset]
    /\ hands_data = << >>
    /\ result = << >>
    /\ prev_states = hand_states
    /\ wire = NoMsg
    /\ sent_at = None
    /\ n_sent = 0
    /\ cap_released = FALSE
    /\ raised = FALSE

SessionInit == SessionInitAt(StartClock)

HandInit ==
    /\ hs = reset
    /\ hs_before = reset
    /\ hs_now \in StartClocks
    /\ hs_op = "init"
    /\ hs_arg = None
    /\ hs_ret = None
    /\ hs_calls = 0
    /\ open_since = None

\* line 143: hand_states[min(idx, 1)]
SlotOf(idx) == Min(idx, 1)

\* entry numbered from 1 instead of by slot index
EntryOneBased(data, idx, label) == data @@ [hand |-> idx + 1, handedness |-> label]

\* lines 145-146
Entry(data, idx, label) == data @@ [hand |-> idx, handedness |-> label]

\* lines 136-147: the slots and hands_data after the first n observations
RECURSIVE UpdateLoop(_, _, _, _)
UpdateLoop(states, frame, n, t) ==
    IF n = 0 THEN [states |-> states, data |-> << >>]
    ELSE LET prev == UpdateLoop(states, frame, n - 1, t)
             idx == n - 1
             ob == frame[n]
             lm == Landmarks(ob.shape)
             r == update(prev.states[SlotOf(idx)], lm, is_open_palm(lm), t)
         IN  [states |-> [prev.states EXCEPT ![SlotOf(idx)] = r.state],
              data |-> Append(prev.data, Entry(r.data, idx, ob.label))]

\* reset that only runs when no hand at all is detected
ResetLostOnlyWhenEmpty(states, detected) ==
    [i \in 0..1 |-> IF detected = 0 THEN reset ELSE states[i]]

\* reset of a lost slot that clears the smoothing but not the hold timer
ResetLostKeepsGrab(states, detected) ==
    [i \in 0..1 |->
        IF i >= detected
        THEN [reset EXCEPT !.palm_start_time = states[i].palm_start_time,
                           !.is_grabbing = states[i].is_grabbing]
        ELSE states[i]]

\* lines 149-156: reset every slot from index detected on
ResetLost(states, detected) ==
    [i \in 0..1 |-> IF i >= detected THEN reset ELSE states[i]]

\* lines 133-156
Multiplex(states, frame, t) ==
    LET r == UpdateLoop(states, frame, Len(frame), t)
    IN  [states |-> ResetLost(r.states, Len(frame)), data |-> r.data]

\* rate test that lets a message through one clock unit early
IsDueEarly(t, last) == t - last >= SEND_INTERVAL - 1

\* line 159
IsDue(t, last) == t - last >= SEND_INTERVAL

\* lines 123-159: one iteration up to the rate-limit test
Iteration(d, frame) ==
    /\ pc = "loop"
    /\ ticks' = ticks + 1
    /\ now' = now + d
    /\ result' = frame
    /\ prev_states' = hand_states
    /\ LET m == Multiplex(hand_states, frame, now')
       IN  /\ hand_states' = m.states
           /\ hands_data' = m.data
    /\ wire' = NoMsg
    /\ pc' = IF IsDue(now', last_send) THEN "send" ELSE "sleep"
    /\ UNCHANGED <<last_send, sent_at, n_sent, cap_released, raised>>
    /\ UNCHANGED offSession

Tick(d, frame) ==
    /\ ticks < MaxTicks
    /\ Iteration(d, frame)

\* lines 160-161: the send returns
Send ==
    /\ pc = "send"
    /\ wire' = Msg(ticks, now, sent_at, hands_data)
    /\ sent_at' = Some(now)
    /\ n_sent' = n_sent + 1
    /\ last_send' = now
    /\ pc' = "sleep"
    /\ UNCHANGED <<ticks, now, hand_states, hands_data, result, prev_states,
                   cap_released, raised>>
    /\ UNCHANGED offSession

\* a failed send without try/finally: the capture is never released
SendFailLeaks ==
    /\ pc = "send"
    /\ raised' = TRUE
    /\ pc' = "done"
    /\ UNCHANGED <<ticks, now, last_send, hand_states, hands_data, result,
                   prev_states, wire, sent_at, n_sent, cap_released>>
    /\ UNCHANGED offSession

\* a failed send caught and ignored inside the loop, which goes on
SendFailSwallowed ==
    /\ pc = "send"
    /\ pc' = "sleep"
    /\ UNCHANGED <<ticks, now, last_send, hand_states, hands_data, result,
                   prev_states, wire, sent_at, n_sent, cap_released, raised>>
    /\ UNCHANGED offSession

\* line 160 raises; lines 164-165 run and the exception propagates
SendFail ==
    /\ pc = "send"
    /\ cap_released' = TRUE
    /\ raised' = TRUE
    /\ pc' = "done"
    /\ UNCHANGED <<ticks, now, last_send, hand_states, hands_data, result,
                   prev_states, wire, sent_at, n_sent>>
    /\ UNCHANGED offSession

\* line 163
Sleep ==
    /\ pc = "sleep"
    /\ pc' = "loop"
    /\ UNCHANGED <<ticks, now, last_send, hand_states, hands_data, result,
                   prev_states, wire, sent_at, n_sent, cap_released, raised>>
    /\ UNCHANGED offSession

\* lines 123-126 and 164-165: the capture is closed or the read fails
ReadFail ==
    /\ pc = "loop"
    /\ cap_released' = TRUE
    /\ pc' = "done"
    /\ UNCHANGED <<ticks, now, last_send, hand_states, hands_data, result,
                   prev_states, wire, sent_at, n_sent, raised>>
    /\ UNCHANGED offSession

\* line 130 raises; lines 164-165 run and the exception propagates
DetectFail ==
    /\ pc = "loop"
    /\ cap_released' = TRUE
    /\ raised' = TRUE
    /\ pc' = "done"
    /\ UNCHANGED <<ticks, now, last_send, hand_states, hands_data, result,
                   prev_states, wire, sent_at, n_sent>>
    /\ UNCHANGED offSession

\* the variables of the other state machines, at rest
TwinInit ==
    /\ twin = reset
    /\ twin_now = 0
    /\ twin_ret = None

PalmInit ==
    /\ lm_in = Landmarks("open")
    /\ palm_out = None

\* the connections served at once, each by its own call of track_hands
Conns == {1, 2}

\* lines 114-120 for every connection
DuoInit ==
    /\ duo = [c \in Conns |->
                [pc |-> "loop", ticks |-> 0, now |-> StartClock, last_send |-> 0,
                 hand_states |-> [i \in 0..1 |-> reset], hands_data |-> << >>,
                 fed |-> << >>, sent |-> << >>]]
    /\ duo_clock = StartClock

Init ==
    /\ SessionInit
    /\ HandInit
    /\ hs_now = 0
    /\ TwinInit
    /\ DuoInit
    /\ PalmInit

Next ==
    \/ \E d \in Deltas, frame \in Frames : Tick(d, frame)
    \/ Send
    \/ SendFail
    \/ Sleep
    \/ ReadFail
    \/ DetectFail

Spec == Init /\ [][Next]_vars

(***************************************************************************)
(* track_hands fed frames at twice the publish rate                        *)
(***************************************************************************)
\* time between two iterations: half of SEND_INTERVAL
PaceSpacing == SEND_INTERVAL \div 2

\* clock values one spacing before the first iteration
PaceStarts == {0 - PaceSpacing, 0, PaceSpacing, 2 * SEND_INTERVAL}

PaceFrames == {<< >>, <<[shape |-> "open", label |-> "Left"]>>}

PaceTick(frame) ==
    /\ ticks < MaxPaceTicks
    /\ Iteration(PaceSpacing, frame)

PaceInit ==
    /\ \E t \in PaceStarts : SessionInitAt(t)
    /\ HandInit
    /\ hs_now = 0
    /\ TwinInit
    /\ DuoInit
    /\ PalmInit

PaceNext ==
    \/ \E frame \in PaceFrames : PaceTick(frame)
    \/ Send
    \/ Sleep

PaceSpec == PaceInit /\ [][PaceNext]_vars

(***************************************************************************)
(* Two connections: two calls of track_hands interleaved at their awaits   *)
(***************************************************************************)
DuoDeltas == {PaceSpacing}

DuoFrames == {<<[shape |-> "open", label |-> "Left"]>>,
              <<[shape |-> "fist", label |-> "Right"],
                [shape |-> "open", label |-> "Left"]>>}

\* hand_states kept at module level: every connection uses the same list
OwnStatesShared(c) == 1

\* line 120: hand_states is a local of the call, one list per connection
OwnStates(c) == c

\* lines 123-159 of connection c; fed records the frame and the clock it read
DuoTick(c, d, frame) ==
    /\ duo[c].pc = "loop"
    /\ duo[c].ticks < MaxDuoTicks
    /\ duo_clock' = duo_clock + d
    /\ LET t == duo_clock'
           cell == OwnStates(c)
           m == Multiplex(duo[cell].hand_states, frame, t)
       IN  duo' = [duo EXCEPT
                     ![cell].hand_states = m.states,
                     ![c].hands_data = m.data,
                     ![c].now = t,
                     ![c].ticks = @ + 1,
                     ![c].fed = Append(@, [t |-> t, frame |-> frame]),
                     ![c].pc = IF IsDue(t, duo[c].last_send) THEN "send" ELSE "sleep"]
    /\ UNCHANGED <<sessionVars, handVars, twinVars, palmVars>>

\* lines 160-161 of connection c
DuoSend(c) ==
    /\ duo[c].pc = "send"
    /\ duo' = [duo EXCEPT
                  ![c].sent = Append(@, [at |-> duo[c].now, hands |-> duo[c].hands_data]),
                  ![c].last_send = duo[c].now,
                  ![c].pc = "sleep"]
    /\ UNCHANGED <<duo_clock, sessionVars, handVars, twinVars, palmVars>>

\* line 163 of connection c
DuoSleep(c) ==
    /\ duo[c].pc = "sleep"
    /\ duo' = [duo EXCEPT ![c].pc = "loop"]
    /\ UNCHANGED <<duo_clock, sessionVars, handVars, twinVars, palmVars>>

DuoSpecInit ==
    /\ SessionInit
    /\ HandInit
    /\ hs_now = 0
    /\ TwinInit
    /\ DuoInit
    /\ PalmInit

DuoNext ==
    \E c \in Conns :
        \/ \E d \in DuoDeltas, frame \in DuoFrames : DuoTick(c, d, frame)
        \/ DuoSend(c)
        \/ DuoSleep(c)

DuoSpec == DuoSpecInit /\ [][DuoNext]_vars

\* track_hands run alone on the first n inputs of fed: its slots, its
\* last_send and the messages it has sent after the n-th iteration
RECURSIVE Alone(_, _)
Alone(fed, n) ==
    IF n = 0
    THEN [hand_states |-> [i \in 0..1 |-> reset], last_send |-> 0, sent |-> << >>]
    ELSE LET prev == Alone(fed, n - 1)
             in == fed[n]
             m == Multiplex(prev.hand_states, in.frame, in.t)
             due == IsDue(in.t, prev.last_send)
         IN  [hand_states |-> m.states,
              last_send |-> IF due THEN in.t ELSE prev.last_send,
              sent |-> IF due THEN Append(prev.sent, [at |-> in.t, hands |-> m.data])
                       ELSE prev.sent]

(***************************************************************************)
(* A HandState object under any sequence of update and reset calls with    *)
(* non-decreasing timestamps                                               *)
(***************************************************************************)
\* HandState.update(lm, open_palm, now), lines 65-111
HsUpdate(d, shape, open_palm) ==
    /\ hs_calls < MaxCalls
    /\ hs_calls' = hs_calls + 1
    /\ hs_now' = hs_now + d
    /\ hs_before' = hs
    /\ LET r == update(hs, Landmarks(shape), open_palm, hs_now')
       IN  /\ hs' = r.state
           /\ hs_ret' = Some(r.data)
    /\ hs_op' = "update"
    /\ hs_arg' = Some([shape |-> shape, open_palm |-> open_palm])
    /\ open_since' = IF ~open_palm THEN None
                     ELSE IF open_since = None THEN Some(hs_now')
                     ELSE open_since
    /\ UNCHANGED offHand

\* HandState.reset(), lines 56-63
HsReset ==
    /\ hs_calls < MaxCalls
    /\ hs_calls' = hs_calls + 1
    /\ hs' = reset
    /\ hs_before' = hs
    /\ hs_op' = "reset"
    /\ hs_arg' = None
    /\ hs_ret' = None
    /\ open_since' = None
    /\ UNCHANGED hs_now
    /\ UNCHANGED offHand

HandSpecInit ==
    /\ SessionInit
    /\ HandInit
    /\ now = 0
    /\ TwinInit
    /\ DuoInit
    /\ PalmInit

HandNext ==
    \/ \E d \in HandDeltas, shape \in Shapes, open_palm \in BOOLEAN :
          HsUpdate(d, shape, open_palm)
    \/ HsReset

HandSpec == HandSpecInit /\ [][HandNext]_vars

(***************************************************************************)
(* Two HandState objects fed the same keypoints and resets, with their own *)
(* open_palm values and timestamps                                         *)
(***************************************************************************)
TwinDeltas == {0, PALM_HOLD_SECONDS}

\* update on both objects: same keypoints, own open_palm and timestamp
TwinUpdate(shape, d1, open1, d2, open2) ==
    /\ hs_calls < MaxTwinCalls
    /\ hs_calls' = hs_calls + 1
    /\ hs_now' = hs_now + d1
    /\ hs_before' = hs
    /\ LET r == update(hs, Landmarks(shape), open1, hs_now')
       IN  /\ hs' = r.state
           /\ hs_ret' = Some(r.data)
    /\ hs_op' = "update"
    /\ hs_arg' = Some([shape |-> shape, open_palm |-> open1])
    /\ open_since' = IF ~open1 THEN None
                     ELSE IF open_since = None THEN Some(hs_now')
                     ELSE open_since
    /\ twin_now' = twin_now + d2
    /\ LET r == update(twin, Landmarks(shape), open2, twin_now')
       IN  /\ twin' = r.state
           /\ twin_ret' = Some(r.data)
    /\ UNCHANGED <<sessionVars, duoVars, palmVars>>

\* reset on both objects
TwinReset ==
    /\ hs_calls < MaxTwinCalls
    /\ hs_calls' = hs_calls + 1
    /\ hs' = reset
    /\ hs_before' = hs
    /\ hs_op' = "reset"
    /\ hs_arg' = None
    /\ hs_ret' = None
    /\ open_since' = None
    /\ twin' = reset
    /\ twin_ret' = None
    /\ UNCHANGED <<hs_now, twin_now>>
    /\ UNCHANGED <<sessionVars, duoVars, palmVars>>

TwinSpecInit ==
    /\ SessionInit
    /\ HandInit
    /\ TwinInit
    /\ DuoInit
    /\ PalmInit

TwinNext ==
    \/ \E shape \in Shapes, d1 \in TwinDeltas, open1 \in BOOLEAN,
          d2 \in TwinDeltas, open2 \in BOOLEAN :
          TwinUpdate(shape, d1, open1, d2, open2)
    \/ TwinReset

TwinSpec == TwinSpecInit /\ [][TwinNext]_vars

(***************************************************************************)
(* Properties of HandState (checked under HandSpec)                        *)
(***************************************************************************)
(***************************************************************************)
(* is_open_palm called on keypoint sets of a bounded grid                  *)
(***************************************************************************)
\* the wrist, keypoint 0
PalmWrist == Pt(10, 10, 0)

\* positions of a PIP joint: both at squared distance 25 from the wrist
PipPts == {Pt(10, 5, 0), Pt(13, 6, 0)}

\* positions of a fingertip, by squared distance to the wrist:
\* 100 (twice the joint's distance, above it), 27 (exactly 1.08 * 25, below),
\* 29 (beyond the margin, below), 26 (within the margin, below),
\* 4 (nearer and below), 25 (level with the first joint, above the second)
TipPts == {Pt(10, 0, 0), Pt(11, 15, 1), Pt(12, 15, 0), Pt(10, 15, 1),
           Pt(10, 12, 0), Pt(10, 5, 0)}

\* positions of the four thumb keypoints 1..4
Thumbs == {[i \in 1..4 |-> Pt(10 - i, 10, 0)],
           [i \in 1..4 |-> Pt(10 - 2 * i, 10 - 2 * i, i)],
           [i \in 1..4 |-> Pt(10, 10 + i, 0)]}

\* 21 keypoints from the thumb and, per finger 1..4, its PIP joint and tip;
\* the MCP and DIP joints lie at fixed places
PalmHand(thumb, pips, tips) ==
    [i \in 0..20 |->
        IF i = 0 THEN PalmWrist
        ELSE IF i \in 1..4 THEN thumb[i]
        ELSE LET f == (i - 5) \div 4 + 1
                 j == (i - 5) % 4
             IN  IF j = 1 THEN pips[f]
                 ELSE IF j = 3 THEN tips[f]
                 ELSE IF j = 0 THEN Pt(10 + f, 8, 0)
                 ELSE Pt(10 + f, 3, 0)]

PalmGrid ==
    {PalmHand(thumb, pips, tips) :
        thumb \in Thumbs, pips \in [1..4 -> PipPts], tips \in [1..4 -> TipPts]}

\* keypoints lm with the thumb keypoints replaced
WithThumb(lm, thumb) == [i \in 0..20 |-> IF i \in 1..4 THEN thumb[i] ELSE lm[i]]

\* is_open_palm(lm_in)
Classify ==
    /\ palm_out = None
    /\ palm_out' = Some(is_open_palm(lm_in))
    /\ UNCHANGED lm_in
    /\ UNCHANGED <<sessionVars, handVars, twinVars, duoVars>>

\* is_open_palm called again on the same hand with another thumb
ClassifyThumb(thumb) ==
    /\ palm_out # None
    /\ lm_in' = WithThumb(lm_in, thumb)
    /\ lm_in' # lm_in
    /\ palm_out' = Some(is_open_palm(lm_in'))
    /\ UNCHANGED <<sessionVars, handVars, twinVars, duoVars>>

PalmSpecInit ==
    /\ SessionInit
    /\ HandInit
    /\ hs_now = 0
    /\ TwinInit
    /\ DuoInit
    /\ lm_in \in PalmGrid
    /\ palm_out = None

PalmNext ==
    \/ Classify
    \/ \E thumb \in Thumbs : ClassifyThumb(thumb)

PalmSpec == PalmSpecInit /\ [][PalmNext]_vars

Updated == hs_op = "update"
Arg == Val(hs_arg)
Ret == Val(hs_ret)

\* C2: grab arming.  While open_palm has been true on every update since the
\* update at t0 (open_since), the returned is_grabbing is false as long as
\* now - t0 < 3.0 s and true from the first update with now - t0 >= 3.0 s,
\* the update at exactly 3.0 s included.
C2_GrabArming ==
    (Updated /\ Arg.open_palm) =>
        /\ open_since # None
        /\ Ret.is_grabbing <=> (hs_now - Val(open_since) >= PALM_HOLD_SECONDS)
        /\ hs.is_grabbing = Ret.is_grabbing

\* the hold reached exactly 3.0 s on this update and armed the grab
C2_Witness ==
    /\ Updated /\ Arg.open_palm
    /\ ~hs_before.is_grabbing
    /\ Ret.is_grabbing
    /\ hs_now - Val(open_since) = PALM_HOLD_SECONDS

\* C3: no debounce.  One update with open_palm false clears the hold start,
\* is_grabbing and the reported duration whatever the state was; an update
\* with open_palm true right after it restarts the hold at its own timestamp
\* (duration 0, not grabbing); and is_grabbing is only ever true when the
\* current unbroken run of open-palm updates spans at least 3.0 s.
C3_NoDebounce ==
    /\ [][(hs_calls' # hs_calls /\ hs_op' = "update" /\ ~Val(hs_arg').open_palm) =>
            /\ hs'.palm_start_time = None
            /\ ~hs'.is_grabbing
            /\ Val(hs_ret').palm_hold_duration = 0
            /\ ~Val(hs_ret').is_grabbing]_vars
    /\ [][(/\ Updated /\ ~Arg.open_palm
           /\ hs_calls' # hs_calls /\ hs_op' = "update" /\ Val(hs_arg').open_palm) =>
            /\ hs'.palm_start_time = Some(hs_now')
            /\ Val(hs_ret').palm_hold_duration = 0
            /\ ~Val(hs_ret').is_grabbing]_vars
    /\ [](hs.is_grabbing =>
            /\ open_since # None
            /\ hs_now - Val(open_since) >= PALM_HOLD_SECONDS)

\* a single open_palm = false update has just cancelled a grab
C3_Witness ==
    /\ Updated /\ ~Arg.open_palm
    /\ hs_before.is_grabbing
    /\ ~hs.is_grabbing /\ hs.palm_start_time = None
    /\ Ret.palm_hold_duration = 0

\* C4: grab persistence.  An update with open_palm true keeps is_grabbing
\* true once it is true; is_grabbing only falls through an update with
\* open_palm false or through reset.
C4_GrabPersists ==
    [][/\ (/\ hs.is_grabbing
           /\ hs_calls' # hs_calls /\ hs_op' = "update" /\ Val(hs_arg').open_palm)
          => (hs'.is_grabbing /\ Val(hs_ret').is_grabbing)
       /\ (hs.is_grabbing /\ ~hs'.is_grabbing)
          => \/ hs_op' = "reset"
             \/ hs_op' = "update" /\ ~Val(hs_arg').open_palm]_vars

\* an update with open_palm true found the grab armed and left it armed
C4_Witness ==
    /\ Updated /\ Arg.open_palm
    /\ hs_before.is_grabbing
    /\ hs.is_grabbing

\* C5: the reported palm_hold_duration lies in [0, 3.0] and is
\* min(now - hold_start, 3.0) while a hold is in progress, 0 otherwise.
C5_HoldDuration ==
    Updated =>
        /\ Ret.palm_hold_duration \in 0..PALM_HOLD_SECONDS
        /\ Ret.palm_hold_duration =
              IF open_since # None
              THEN Min(hs_now - Val(open_since), PALM_HOLD_SECONDS)
              ELSE 0

\* C7: the first update after construction or reset returns the raw value
\* of its keypoints on each of the seven channels.
C7_FirstSampleRaw ==
    [][(hs_op \in {"init", "reset"} /\ hs_op' = "update") =>
         LET lm == Landmarks(Val(hs_arg').shape)
             ret == Val(hs_ret')
             c == palm_center(lm)
         IN  /\ ret.x = lm[8].x
             /\ ret.y = lm[8].y
             /\ ret.z = lm[8].z
             /\ ret.pinch = hypot(lm[4].x - lm[8].x, lm[4].y - lm[8].y)
             /\ ret.palm_x = c.x
             /\ ret.palm_y = c.y
             /\ ret.palm_z = c.z]_vars

\* the object held smoothed values, was reset, and has been updated once since
C7_Witness ==
    /\ Updated
    /\ hs_calls >= 3
    /\ hs_before = reset
    /\ Ret.x = Landmarks(Arg.shape)[8].x
    /\ Ret.pinch = hypot(Landmarks(Arg.shape)[4].x - Ret.x,
                         Landmarks(Arg.shape)[4].y - Ret.y)

Channels(s) == {s.sx, s.sy, s.sz, s.spinch, s.spx, s.spy, s.spz}

\* C8: the seven smoothed channels are all uninitialized or all initialized,
\* and reset leaves every channel uninitialized, no hold start and
\* is_grabbing false.
C8_AllOrNothing ==
    /\ \/ \A c \in Channels(hs) : c = None
       \/ \A c \in Channels(hs) : c # None
    /\ hs_op = "reset" =>
          /\ \A c \in Channels(hs) : c = None
          /\ hs.palm_start_time = None
          /\ ~hs.is_grabbing

\* reset has just cleared an object that was smoothing and grabbing
C8_Witness ==
    /\ hs_op = "reset"
    /\ hs_before.sx # None /\ hs_before.is_grabbing
    /\ hs.sx = None /\ hs.spz = None /\ ~hs.is_grabbing

(***************************************************************************)
(* Properties of track_hands (checked under Spec)                          *)
(***************************************************************************)
Emits == wire = NoMsg /\ wire' # NoMsg

\* C1: rate cap.  A message is emitted only when now - last_send >=
\* SEND_INTERVAL, the emit sets last_send to that now, and the tick timestamps
\* of two consecutively emitted messages differ by at least SEND_INTERVAL.
C1_RateCap ==
    [][Emits =>
         /\ now - last_send >= SEND_INTERVAL
         /\ last_send' = now
         /\ Val(wire').at = now
         /\ sent_at # None => now - Val(sent_at) >= SEND_INTERVAL]_vars

\* a second message went out exactly SEND_INTERVAL after the one before it
C1_Witness ==
    /\ wire # NoMsg
    /\ Val(wire).prev # None
    /\ Val(wire).at - Val(Val(wire).prev) = SEND_INTERVAL
    /\ last_send = Val(wire).at

\* C6: multiplexer assignment and reset.  After a tick with k detections the
\* detection at position i has updated slot i, every slot from k on is reset,
\* and so slot i has initialized channels exactly when i < k.
C6_Multiplex ==
    ticks > 0 =>
        \A i \in 0..1 :
            IF i < Len(result)
            THEN LET lm == Landmarks(result[i + 1].shape)
                 IN  /\ hand_states[i] =
                            update(prev_states[i], lm, is_open_palm(lm), now).state
                     /\ \A c \in Channels(hand_states[i]) : c # None
            ELSE /\ hand_states[i] = reset
                 /\ \A c \in Channels(hand_states[i]) : c = None

\* two hands were tracked and one is left: slot 0 goes on, slot 1 is reset
C6_Witness ==
    /\ ticks > 1
    /\ Len(result) = 1
    /\ prev_states[0].sx # None /\ prev_states[1].sx # None
    /\ hand_states[0].sx # None /\ hand_states[1] = reset

\* C9: snapshot shape.  hands_data has one entry per detection, in detection
\* order; entry i carries hand = i and the label of detection i; it is empty
\* when nothing is detected and has no entry for a slot reset on this tick.
C9_SnapshotShape ==
    /\ Len(hands_data) = Len(result)
    /\ Len(hands_data) \in 0..2
    /\ \A p \in 1..Len(hands_data) :
          /\ hands_data[p].hand = p - 1
          /\ hands_data[p].handedness = result[p].label
          /\ hand_states[hands_data[p].hand] # reset
    /\ (\A i \in 0..1 : hand_states[i] = reset) => hands_data = << >>

\* one hand of two was lost on this tick: one entry, for slot 0, none for slot 1
C9_Witness ==
    /\ prev_states[1].sx # None
    /\ hand_states[1] = reset
    /\ Len(hands_data) = 1
    /\ hands_data[1].hand = 0
    /\ hands_data[1].handedness = "Left"

\* C10: newest wins.  An emitted message is the snapshot of the tick that
\* emits it, built from the slots as that tick's multiplexer left them; a
\* tick that is not due emits nothing, now or later, and leaves last_send
\* unchanged; nothing is kept for a later tick.
C10_NewestWins ==
    /\ [](wire # NoMsg =>
            LET m == Val(wire)
            IN  /\ m.tick = ticks
                /\ m.at = now
                /\ m.hands = hands_data
                /\ m.hands = Multiplex(prev_states, result, now).data
                /\ \A p \in 1..Len(m.hands) :
                      LET e == m.hands[p]
                          slot == hand_states[p - 1]
                      IN  /\ e.x = Val(slot.sx) /\ e.y = Val(slot.sy)
                          /\ e.z = Val(slot.sz) /\ e.pinch = Val(slot.spinch)
                          /\ e.palm_x = Val(slot.spx) /\ e.palm_y = Val(slot.spy)
                          /\ e.palm_z = Val(slot.spz)
                          /\ e.is_grabbing = slot.is_grabbing)
    /\ [][/\ Emits => (pc = "send" /\ now - last_send >= SEND_INTERVAL)
          /\ (ticks' # ticks /\ now' - last_send < SEND_INTERVAL) =>
                (pc' = "sleep" /\ wire' = NoMsg /\ last_send' = last_send)
          /\ last_send' # last_send => Emits
          /\ pc' = "send" => ticks' # ticks]_vars

\* the snapshot of tick 2 was discarded and tick 3 emitted its own snapshot
C10_Witness ==
    /\ wire # NoMsg
    /\ Val(wire).tick = 3
    /\ Val(wire).prev = Some(StartClock + SEND_INTERVAL)
    /\ Val(wire).at = StartClock + 2 * SEND_INTERVAL
    /\ Val(wire).hands # << >>
    /\ Val(wire).hands = hands_data

C12_Isolation ==
    /\ [][\A c \in Conns :
            duo'[c].pc = duo[c].pc =>
                /\ duo'[c].hand_states = duo[c].hand_states
                /\ duo'[c].last_send = duo[c].last_send
                /\ duo'[c].sent = duo[c].sent]_vars
    /\ [](\A c \in Conns :
            LET lone == Alone(duo[c].fed, Len(duo[c].fed))
            IN  /\ duo[c].hand_states = lone.hand_states
                /\ duo[c].pc # "send" =>
                      /\ duo[c].sent = lone.sent
                      /\ duo[c].last_send = lone.last_send)

\* both connections have run iterations in between each other's and both
\* have sent, with different slot states
C12_Witness ==
    /\ \A c \in Conns : duo[c].ticks = 2 /\ Len(duo[c].sent) >= 1
    /\ duo[1].fed[1].t < duo[2].fed[1].t
    /\ duo[2].fed[1].t < duo[1].fed[2].t
    /\ duo[1].hand_states # duo[2].hand_states

(***************************************************************************)
(* Exit paths of track_hands (checked under Spec)                          *)
(***************************************************************************)
\* C13: frame-source release.  However the loop is left (capture closed or
\* read failed, detection raising, send raising) the capture has been
\* released once track_hands has ended, and an ended call sends nothing more.
C13_Release ==
    /\ [](pc = "done" => cap_released)
    /\ [][pc = "done" =>
            /\ pc' = "done"
            /\ cap_released'
            /\ n_sent' = n_sent
            /\ wire' = wire]_vars

\* a send raised after earlier sends had gone out, and the capture is released
C13_Witness ==
    /\ pc = "done"
    /\ raised
    /\ cap_released
    /\ n_sent >= 1
    /\ now - last_send >= SEND_INTERVAL

\* C14: send failure.  A send that fails is not retried and not swallowed:
\* the exception leaves track_hands, last_send keeps its value, and no later
\* iteration of that call runs.
C14_SendFailure ==
    /\ [][(pc = "send" /\ pc' # "send" /\ wire' = NoMsg) =>
            /\ pc' = "done"
            /\ raised'
            /\ last_send' = last_send
            /\ sent_at' = sent_at
            /\ n_sent' = n_sent]_vars
    /\ [][raised =>
            /\ raised'
            /\ ticks' = ticks
            /\ n_sent' = n_sent
            /\ last_send' = last_send]_vars
    /\ [](raised => pc = "done")

\* the send of a due snapshot of two hands raised: last_send is still behind
C14_Witness ==
    /\ raised
    /\ pc = "done"
    /\ wire = NoMsg
    /\ Len(hands_data) = 2
    /\ now - last_send >= SEND_INTERVAL
    /\ sent_at = None

\* C15: first tick publishes.  last_send starts as "never", so the first
\* iteration of a call sends its snapshot whatever the clock reads (checked
\* under Spec on the first iteration once it is complete).
C15_FirstTickPublishes ==
    (ticks = 1 /\ pc \in {"sleep", "loop"}) => (n_sent = 1 /\ last_send = now)

\* C16: payload consistency (under HandSpec).  In every returned dict
\* is_grabbing implies is_open_palm and palm_hold_duration = 3.0, and
\* is_open_palm false implies is_grabbing false and palm_hold_duration = 0.
C16_PayloadConsistent ==
    Updated =>
        /\ Ret.is_grabbing =>
              (Ret.is_open_palm /\ Ret.palm_hold_duration = PALM_HOLD_SECONDS)
        /\ ~Ret.is_open_palm =>
              (~Ret.is_grabbing /\ Ret.palm_hold_duration = 0)

\* C17: tracking loss cancels the grab (under Spec).  A slot that was holding
\* or grabbing and has no detection on a tick loses its hold start and
\* is_grabbing; a hand appearing in a vacant slot with an open palm starts its
\* hold at that tick, not grabbing; and a slot only grabs when its current
\* hold has lasted 3.0 s.
C17_LossCancelsGrab ==
    ticks > 0 =>
        \A i \in 0..1 :
            /\ (i >= Len(result) /\ prev_states[i].palm_start_time # None) =>
                  /\ hand_states[i].palm_start_time = None
                  /\ ~hand_states[i].is_grabbing
            /\ (/\ i < Len(result)
                /\ prev_states[i].sx = None
                /\ hands_data[i + 1].is_open_palm) =>
                  /\ hand_states[i].palm_start_time = Some(now)
                  /\ ~hand_states[i].is_grabbing
                  /\ ~hands_data[i + 1].is_grabbing
            /\ hand_states[i].is_grabbing =>
                  /\ hand_states[i].palm_start_time # None
                  /\ now - Val(hand_states[i].palm_start_time) >= PALM_HOLD_SECONDS

\* slot 1 was grabbing, its hand is lost while slot 0 goes on, and it is cleared
C17_Witness ==
    /\ ticks > 0
    /\ Len(result) = 1
    /\ prev_states[1].is_grabbing
    /\ prev_states[1].palm_start_time # None
    /\ hand_states[1].palm_start_time = None
    /\ ~hand_states[1].is_grabbing

(***************************************************************************)
(* Properties of smoothing (C18 under TwinSpec, C19 under HandSpec)        *)
(***************************************************************************)
ChannelNames == {"x", "y", "z", "pinch", "palm_x", "palm_y", "palm_z"}

\* the smoothed attribute of s behind a channel of the returned dict
Attr(s, ch) ==
    CASE ch = "x" -> s.sx
      [] ch = "y" -> s.sy
      [] ch = "z" -> s.sz
      [] ch = "pinch" -> s.spinch
      [] ch = "palm_x" -> s.spx
      [] ch = "palm_y" -> s.spy
      [] ch = "palm_z" -> s.spz

\* the raw value of a channel for keypoints lm
RawOf(lm, ch) ==
    CASE ch = "x" -> lm[8].x
      [] ch = "y" -> lm[8].y
      [] ch = "z" -> lm[8].z
      [] ch = "pinch" -> hypot(lm[4].x - lm[8].x, lm[4].y - lm[8].y)
      [] ch = "palm_x" -> palm_center(lm).x
      [] ch = "palm_y" -> palm_center(lm).y
      [] ch = "palm_z" -> palm_center(lm).z

\* the value of a channel in a returned dict
Out(ret, ch) ==
    CASE ch = "x" -> ret.x
      [] ch = "y" -> ret.y
      [] ch = "z" -> ret.z
      [] ch = "pinch" -> ret.pinch
      [] ch = "palm_x" -> ret.palm_x
      [] ch = "palm_y" -> ret.palm_y
      [] ch = "palm_z" -> ret.palm_z

\* C18: smoothing is independent of the gesture state and of the other
\* channels.  Two objects fed the same keypoints and resets return the same
\* seven smoothed values whatever their open_palm values and timestamps, and
\* each channel is its raw value on the first sample and
\* alpha * raw + (1 - alpha) * its own previous value afterwards.
C18_SmoothingIndependent ==
    /\ \A ch \in ChannelNames : Attr(hs, ch) = Attr(twin, ch)
    /\ Updated =>
          \A ch \in ChannelNames :
              /\ Out(Ret, ch) = Out(Val(twin_ret), ch)
              /\ Out(Ret, ch) =
                    IF Attr(hs_before, ch) = None
                    THEN RawOf(Landmarks(Arg.shape), ch)
                    ELSE (SMOOTH_ALPHA * RawOf(Landmarks(Arg.shape), ch)
                          + (100 - SMOOTH_ALPHA) * Val(Attr(hs_before, ch))) \div 100

\* one object was grabbing and the other idle when a blended sample came out
C18_Witness ==
    /\ Updated
    /\ hs_before.is_grabbing /\ hs.is_grabbing
    /\ ~twin.is_grabbing /\ ~Val(twin_ret).is_open_palm
    /\ hs_now # twin_now
    /\ Ret.x # RawOf(Landmarks(Arg.shape), "x")
    /\ Ret.x = Val(twin_ret).x

\* C19: smoothing arithmetic.  A freshly constructed or reset object fed the
\* fingertip x values 0.5 and then 0.6 returns x = 0.5 and then
\* x = 0.35 * 0.6 + 0.65 * 0.5 = 0.535 (500, 600 and 535 in thousandths).
C19_Arithmetic ==
    [][/\ (/\ hs_op \in {"init", "reset"}
           /\ hs_op' = "update"
           /\ Landmarks(Val(hs_arg').shape)[8].x = 500)
          => Val(hs_ret').x = 500
       /\ (/\ Updated
           /\ hs_before.sx = None
           /\ Landmarks(Arg.shape)[8].x = 500
           /\ hs_calls' # hs_calls
           /\ hs_op' = "update"
           /\ Landmarks(Val(hs_arg').shape)[8].x = 600)
          => Val(hs_ret').x = 535]_vars

\* the second sample of a new object: 0.6 after 0.5 gave 0.535
C19_Witness ==
    /\ Updated
    /\ hs_calls = 2
    /\ hs_before.sx = Some(500)
    /\ Landmarks(Arg.shape)[8].x = 600
    /\ Ret.x = 535
    /\ hs.sx = Some(535)

\* C20: open-palm classification.  is_open_palm returns true iff each of the
\* fingers (8,6), (12,10), (16,14), (20,18) is extended, a finger being
\* extended iff dist2(tip, wrist) > 1.08 * dist2(mid-joint, wrist) or
\* tip.y < mid-joint.y; calling it again with other thumb keypoints returns
\* the same value.
C20_OpenPalm ==
    /\ [](palm_out # None =>
            Val(palm_out) =
               (\A pr \in {<<8, 6>>, <<12, 10>>, <<16, 14>>, <<20, 18>>} :
                   \/ 100 * dist2(lm_in[pr[1]], lm_in[0])
                          > 108 * dist2(lm_in[pr[2]], lm_in[0])
                   \/ lm_in[pr[1]].y < lm_in[pr[2]].y))
    /\ [][(/\ palm_out # None
           /\ palm_out' # None
           /\ \A i \in {0} \cup 5..20 : lm_in'[i] = lm_in[i])
          => palm_out' = palm_out]_vars

\* a hand refused for one finger only: the index tip sits exactly on the 1.08
\* margin and not above its joint, the other three fingers are extended
C20_Witness ==
    /\ palm_out = Some(FALSE)
    /\ 100 * dist2(lm_in[8], lm_in[0]) = 108 * dist2(lm_in[6], lm_in[0])
    /\ lm_in[8].y >= lm_in[6].y
    /\ \A pr \in {<<12, 10>>, <<16, 14>>, <<20, 18>>} :
          \/ 100 * dist2(lm_in[pr[1]], lm_in[0]) > 108 * dist2(lm_in[pr[2]], lm_in[0])
          \/ lm_in[pr[1]].y < lm_in[pr[2]].y
    /\ lm_in[4] # Pt(6, 10, 0)

====
